---- MODULE Spec2Model ----
(***************************************************************************)
(* Model of the 3x3 warehouse propositional enumerator                     *)
(* (src/src/warehouse_logic.py) and of the call sequence of its runner     *)
(* (src/scripts/run_warehouse.py).                                         *)
(*                                                                         *)
(* A cell is a pair <<x, y>>.  A percept mapping (a Python dict, iterated  *)
(* in insertion order) is a sequence of records [sym, cell, val] with      *)
(* pairwise distinct keys (sym, cell).  A model (world) is a record        *)
(* [D, F, C, N] of four sets of cells, as the dict built at line 86.       *)
(***************************************************************************)
EXTENDS Integers, Sequences, FiniteSets, TLC

(* ---------------------------- bounds ----------------------------------- *)
\* largest number of cells the caller senses percepts at
MaxVisits == 2
\* percepts are sensed at the first MaxObsCells cells of coords
MaxObsCells == 3

(* ------------------------- grid / adjacency ---------------------------- *)
GridSide == 3

\* coords = [(x, y) for y in (1, 2, 3) for x in (1, 2, 3)]
coords ==
  [i \in 1..(GridSide * GridSide) |->
      << ((i - 1) % GridSide) + 1, ((i - 1) \div GridSide) + 1 >>]

Cells == {coords[i] : i \in 1..Len(coords)}

Origin == <<1, 1>>

\* variant: the offset (0, 1) is missing
OffsetsNoUp == << <<1, 0>>, <<-1, 0>>, <<0, -1>> >>

Offsets == << <<1, 0>>, <<-1, 0>>, <<0, 1>>, <<0, -1>> >>

\* variant: the upper bound of the grid is exclusive
InGridStrict(n) == 1 <= n[1] /\ n[1] < GridSide /\ 1 <= n[2] /\ n[2] < GridSide

InGrid(n) == 1 <= n[1] /\ n[1] <= GridSide /\ 1 <= n[2] /\ n[2] <= GridSide

\* neighbors(cell): the in-grid cells among cell + each offset, in offset
\* order; tabulated once for the cells of the grid, the only arguments the
\* module passes.
NeighborTable ==
  [cell \in Cells |->
     SelectSeq([i \in 1..Len(Offsets) |->
                  << cell[1] + Offsets[i][1], cell[2] + Offsets[i][2] >>],
               InGrid)]

neighbors(cell) == NeighborTable[cell]

(* ------------------------- percept derivation -------------------------- *)
\* the inner loop with break: some neighbor of cell is in the set
AnyNeighborIn(cell, S) ==
  LET neigh == neighbors(cell)
  IN  \E j \in 1..Len(neigh) : neigh[j] \in S

derive_creaks(Dset) ==
  {coords[i] : i \in {k \in 1..Len(coords) : AnyNeighborIn(coords[k], Dset)}}

derive_noises(Fset) ==
  {coords[i] : i \in {k \in 1..Len(coords) : AnyNeighborIn(coords[k], Fset)}}

\* variant: "or" for "and"
is_safe_either(cell, Dset, Fset) == (cell \notin Dset) \/ (cell \notin Fset)

is_safe(cell, Dset, Fset) == (cell \notin Dset) /\ (cell \notin Fset)

(* --------------------------- enumeration ------------------------------- *)
\* variant: a mismatch of a noise entry does not reject the placement
RECURSIVE CheckPerceptsNoiseUnchecked(_, _, _, _)
CheckPerceptsNoiseUnchecked(percepts, i, Cset, Nset) ==
  IF i > Len(percepts) THEN "ok"
  ELSE IF percepts[i].sym = "C"
       THEN IF (percepts[i].cell \in Cset) # percepts[i].val
            THEN "violated"
            ELSE CheckPerceptsNoiseUnchecked(percepts, i + 1, Cset, Nset)
  ELSE IF percepts[i].sym = "N"
       THEN CheckPerceptsNoiseUnchecked(percepts, i + 1, Cset, Nset)
  ELSE "raise"

\* variant: no break, each entry overwrites the flag, so the last one decides
RECURSIVE CheckPerceptsLastDecides(_, _, _, _)
CheckPerceptsLastDecides(percepts, i, Cset, Nset) ==
  IF i > Len(percepts) THEN "ok"
  ELSE IF percepts[i].sym \notin {"C", "N"} THEN "raise"
  ELSE IF i < Len(percepts)
       THEN CheckPerceptsLastDecides(percepts, i + 1, Cset, Nset)
  ELSE IF percepts[i].sym = "C"
       THEN IF (percepts[i].cell \in Cset) # percepts[i].val
            THEN "violated" ELSE "ok"
  ELSE IF (percepts[i].cell \in Nset) # percepts[i].val
       THEN "violated" ELSE "ok"

\* variant: a creaking entry is looked up in the noise set
RECURSIVE CheckPerceptsCreakInNoises(_, _, _, _)
CheckPerceptsCreakInNoises(percepts, i, Cset, Nset) ==
  IF i > Len(percepts) THEN "ok"
  ELSE IF percepts[i].sym = "C"
       THEN IF (percepts[i].cell \in Nset) # percepts[i].val
            THEN "violated"
            ELSE CheckPerceptsCreakInNoises(percepts, i + 1, Cset, Nset)
  ELSE IF percepts[i].sym = "N"
       THEN IF (percepts[i].cell \in Nset) # percepts[i].val
            THEN "violated"
            ELSE CheckPerceptsCreakInNoises(percepts, i + 1, Cset, Nset)
  ELSE "raise"

\* The percept-consistency loop of lines 71-82 for one placement, from entry
\* i on: "violated" at the first mismatch (break), "raise" when an entry of
\* unknown symbol is reached, "ok" when the loop runs to its end.
RECURSIVE CheckPercepts(_, _, _, _)
CheckPercepts(percepts, i, Cset, Nset) ==
  IF i > Len(percepts) THEN "ok"
  ELSE IF percepts[i].sym = "C"
       THEN IF (percepts[i].cell \in Cset) # percepts[i].val
            THEN "violated"
            ELSE CheckPercepts(percepts, i + 1, Cset, Nset)
  ELSE IF percepts[i].sym = "N"
       THEN IF (percepts[i].cell \in Nset) # percepts[i].val
            THEN "violated"
            ELSE CheckPercepts(percepts, i + 1, Cset, Nset)
  ELSE "raise"

\* variant: only the damaged floor is kept off the start square
OriginExcludedDamagedOnly(Dset, Fset) == Origin \in Dset

\* line 64: the start square is neither damaged nor holds the forklift
OriginExcluded(Dset, Fset) == Origin \in Dset \/ Origin \in Fset

\* The inner loop of lines 60-87 for one damaged cell, from forklift cell
\* coords[fi] on, with the models appended so far.  The result is
\* [raised, models]: a raised ValueError leaves no return value.
RECURSIVE ForkliftLoop(_, _, _, _)
ForkliftLoop(percepts, Dset, fi, models) ==
  IF fi > Len(coords) THEN [raised |-> FALSE, models |-> models]
  ELSE
    LET Fset == {coords[fi]}
    IN  IF OriginExcluded(Dset, Fset)
        THEN ForkliftLoop(percepts, Dset, fi + 1, models)
        ELSE
          LET Cset == derive_creaks(Dset)
              Nset == derive_noises(Fset)
              chk  == CheckPercepts(percepts, 1, Cset, Nset)
          IN  IF chk = "raise" THEN [raised |-> TRUE, models |-> << >>]
              ELSE IF chk = "violated"
                   THEN ForkliftLoop(percepts, Dset, fi + 1, models)
              ELSE ForkliftLoop(percepts, Dset, fi + 1,
                                Append(models,
                                       [D |-> Dset, F |-> Fset,
                                        C |-> Cset, N |-> Nset]))

\* variant: the outer loop stops one cell early
RECURSIVE DamagedLoopShort(_, _, _)
DamagedLoopShort(percepts, di, models) ==
  IF di > Len(coords) - 1 THEN [raised |-> FALSE, models |-> models]
  ELSE
    LET r == ForkliftLoop(percepts, {coords[di]}, 1, models)
    IN  IF r.raised THEN r ELSE DamagedLoopShort(percepts, di + 1, r.models)

\* The outer loop of lines 58-87 from damaged cell coords[di] on; the
\* exception of the inner loop propagates.
RECURSIVE DamagedLoop(_, _, _)
DamagedLoop(percepts, di, models) ==
  IF di > Len(coords) THEN [raised |-> FALSE, models |-> models]
  ELSE
    LET r == ForkliftLoop(percepts, {coords[di]}, 1, models)
    IN  IF r.raised THEN r ELSE DamagedLoop(percepts, di + 1, r.models)

enumerate_models(percepts) == DamagedLoop(percepts, 1, << >>)

(* --------------------------- aggregation ------------------------------- *)
\* variant: no special case for the empty list
provable_facts_vacuous(models) ==
  [safe     |-> {c \in Cells :
                   ~ \E i \in 1..Len(models) :
                       ~ is_safe(c, models[i].D, models[i].F)},
   damaged  |-> {c \in Cells :
                   ~ \E i \in 1..Len(models) : c \notin models[i].D},
   forklift |-> {c \in Cells :
                   ~ \E i \in 1..Len(models) : c \notin models[i].F}]

provable_facts(models) ==
  IF Len(models) = 0
  THEN [safe |-> {}, damaged |-> {}, forklift |-> {}]
  ELSE [safe     |-> {c \in Cells :
                        ~ \E i \in 1..Len(models) :
                            ~ is_safe(c, models[i].D, models[i].F)},
        damaged  |-> {c \in Cells :
                        ~ \E i \in 1..Len(models) : c \notin models[i].D},
        forklift |-> {c \in Cells :
                        ~ \E i \in 1..Len(models) : c \notin models[i].F}]

summarize(models) ==
  LET prov == provable_facts(models)
  IN  [num_models        |-> Len(models),
       provably_safe     |-> prov.safe,
       provably_damaged  |-> prov.damaged,
       provably_forklift |-> prov.forklift,
       possible_D        |-> UNION {models[i].D : i \in 1..Len(models)},
       possible_F        |-> UNION {models[i].F : i \in 1..Len(models)}]

(* ------------------------------ state ---------------------------------- *)
VARIABLES
  percepts,   \* the percept mapping handed to enumerate_models
  pc,         \* position of the caller
  models,     \* the list returned by enumerate_models
  summary,    \* the dict returned by summarize
  cellset,    \* the set handed to derive_creaks and derive_noises
  creaks,     \* the set returned by derive_creaks
  noises      \* the set returned by derive_noises

vars == << percepts, pc, models, summary, cellset, creaks, noises >>

\* value of summary before summarize has returned
NoSummary ==
  [num_models |-> -1, provably_safe |-> {}, provably_damaged |-> {},
   provably_forklift |-> {}, possible_D |-> {}, possible_F |-> {}]

ObsCells == {coords[i] : i \in 1..MaxObsCells}

\* What the caller may sense at a cell: creaking, noise, or creaking then
\* noise (the order of the literals of run()), each true or false.
Sensed(cell) ==
  LET C(v) == [sym |-> "C", cell |-> cell, val |-> v]
      N(v) == [sym |-> "N", cell |-> cell, val |-> v]
  IN  {<< C(v) >> : v \in BOOLEAN} \cup {<< N(v) >> : v \in BOOLEAN}
        \cup {<< C(v), N(w) >> : v \in BOOLEAN, w \in BOOLEAN}

\* An entry of a symbol the enumerator does not know.  The enumerator reads
\* neither the cell nor the value of such an entry (lines 81-82), so one
\* entry stands for all of them.
UnknownEntry == [sym |-> "X", cell |-> Origin, val |-> TRUE]

\* the cells the mapping holds a percept of
Visited(p) == {p[i].cell : i \in {j \in 1..Len(p) : p[j].sym \in {"C", "N"}}}

HasKey(p, sym, cell) ==
  \E i \in 1..Len(p) : p[i].sym = sym /\ p[i].cell = cell

\* the two mappings of run(), in the order their literals list the entries
percepts1 ==
  << [sym |-> "C", cell |-> <<1, 1>>, val |-> FALSE],
     [sym |-> "N", cell |-> <<1, 1>>, val |-> FALSE] >>

percepts2 ==
  << [sym |-> "C", cell |-> <<1, 1>>, val |-> FALSE],
     [sym |-> "N", cell |-> <<1, 1>>, val |-> FALSE],
     [sym |-> "C", cell |-> <<2, 1>>, val |-> TRUE],
     [sym |-> "N", cell |-> <<2, 1>>, val |-> FALSE] >>

Init ==
  /\ percepts = << >>
  /\ pc = "call"
  /\ models = << >>
  /\ summary = NoSummary
  /\ cellset = {}
  /\ creaks = {}
  /\ noises = {}

\* models = enumerate_models(percepts); a ValueError ends the run
Enumerate ==
  /\ pc = "call"
  /\ LET r == enumerate_models(percepts)
     IN  /\ models' = r.models
         /\ pc' = IF r.raised THEN "raised" ELSE "enumerated"
  /\ UNCHANGED << percepts, summary, cellset, creaks, noises >>

\* summary = summarize(models)
Summarize ==
  /\ pc = "enumerated"
  /\ summary' = summarize(models)
  /\ pc' = "summarized"
  /\ UNCHANGED << percepts, models, cellset, creaks, noises >>

\* the caller moves to a cell not sensed at before and adds what it senses
\* there to the mapping (run(), percepts2)
Sense ==
  /\ pc = "summarized"
  /\ Cardinality(Visited(percepts)) < MaxVisits
  /\ \E cell \in ObsCells \ Visited(percepts) :
       \E batch \in Sensed(cell) : percepts' = percepts \o batch
  /\ pc' = "call"
  /\ UNCHANGED << models, summary, cellset, creaks, noises >>

\* the caller adds an entry of an unknown symbol to the mapping
SenseUnknown ==
  /\ pc = "summarized"
  /\ ~ HasKey(percepts, UnknownEntry.sym, UnknownEntry.cell)
  /\ percepts' = Append(percepts, UnknownEntry)
  /\ pc' = "call"
  /\ UNCHANGED << models, summary, cellset, creaks, noises >>

Next == Enumerate \/ Summarize \/ Sense \/ SenseUnknown

Spec == Init /\ [][Next]_vars

(* ------------- the derivation functions on arbitrary sets -------------- *)
InitDerive ==
  /\ cellset \in SUBSET Cells
  /\ pc = "derive"
  /\ creaks = {}
  /\ noises = {}
  /\ percepts = << >>
  /\ models = << >>
  /\ summary = NoSummary

\* creaks = derive_creaks(cellset)
DeriveCreaks ==
  /\ pc = "derive"
  /\ creaks' = derive_creaks(cellset)
  /\ pc' = "creaks"
  /\ UNCHANGED << cellset, noises, percepts, models, summary >>

\* noises = derive_noises(cellset)
DeriveNoises ==
  /\ pc = "creaks"
  /\ noises' = derive_noises(cellset)
  /\ pc' = "derived"
  /\ UNCHANGED << cellset, creaks, percepts, models, summary >>

NextDerive == DeriveCreaks \/ DeriveNoises

SpecDerive == InitDerive /\ [][NextDerive]_vars

(* ----------------------------- properties ------------------------------ *)
\* two cells are orthogonal neighbours
Adjacent(a, b) ==
  (a[1] - b[1]) * (a[1] - b[1]) + (a[2] - b[2]) * (a[2] - b[2]) = 1

\* the order of the cells in an enumeration
CoordsOrder ==
  << <<1, 1>>, <<2, 1>>, <<3, 1>>,
     <<1, 2>>, <<2, 2>>, <<3, 2>>,
     <<1, 3>>, <<2, 3>>, <<3, 3>> >>

Universe == {CoordsOrder[i] : i \in 1..Len(CoordsOrder)}

Returned == pc \in {"enumerated", "summarized"}

AllRecognized(p) == \A j \in 1..Len(p) : p[j].sym \in {"C", "N"}

SomeUnrecognized(p) == \E j \in 1..Len(p) : p[j].sym \notin {"C", "N"}

\* the placement <<hazard, obstruction>> agrees with every entry of p
Agrees(pr, p) ==
  \A j \in 1..Len(p) :
    /\ p[j].sym = "C" => (Adjacent(p[j].cell, pr[1]) <=> p[j].val)
    /\ p[j].sym = "N" => (Adjacent(p[j].cell, pr[2]) <=> p[j].val)

\* the 81 placements, hazard cell outer, obstruction cell inner
AllPairs ==
  [k \in 1..(Len(CoordsOrder) * Len(CoordsOrder)) |->
     << CoordsOrder[((k - 1) \div Len(CoordsOrder)) + 1],
        CoordsOrder[((k - 1) % Len(CoordsOrder)) + 1] >>]

KeepPair(pr) == pr[1] # <<1, 1>> /\ pr[2] # <<1, 1>> /\ Agrees(pr, percepts)

\* the placements of the returned worlds, in order
PairsOf(ms) ==
  [i \in 1..Len(ms) |->
     << CHOOSE h \in ms[i].D : TRUE, CHOOSE o \in ms[i].F : TRUE >>]

\* ms is a subsequence of ns (ns without repetitions)
IsSubseq(ms, ns) ==
  /\ \A i \in 1..Len(ms) : \E k \in 1..Len(ns) : ns[k] = ms[i]
  /\ \A i \in 1..Len(ms), j \in 1..Len(ms) :
       i < j => (CHOOSE k \in 1..Len(ns) : ns[k] = ms[i])
                  < (CHOOSE k \in 1..Len(ns) : ns[k] = ms[j])

Front(p) == SubSeq(p, 1, Len(p) - 1)

\* C1: every returned world has exactly one hazard cell and one obstruction
\* cell, neither of them the origin, and its stored signal sets agree with
\* every entry of the observation mapping.
C1_WorldsSound ==
  Returned =>
    \A i \in 1..Len(models) :
      /\ Cardinality(models[i].D) = 1
      /\ Cardinality(models[i].F) = 1
      /\ <<1, 1>> \notin models[i].D
      /\ <<1, 1>> \notin models[i].F
      /\ \A j \in 1..Len(percepts) :
           /\ percepts[j].sym = "C" =>
                ((percepts[j].cell \in models[i].C) <=> percepts[j].val)
           /\ percepts[j].sym = "N" =>
                ((percepts[j].cell \in models[i].N) <=> percepts[j].val)

C1_Witness ==
  /\ pc = "enumerated"
  /\ Len(models) > 0
  /\ \E j \in 1..Len(percepts) : percepts[j].sym = "C" /\ percepts[j].val
  /\ \E j \in 1..Len(percepts) : percepts[j].sym = "N" /\ ~ percepts[j].val

\* C2: for a mapping of recognized kinds the returned worlds are exactly the
\* placements, among the 81 taken hazard cell outer and obstruction cell
\* inner in coords order, that avoid the origin and agree with every
\* observation, each once and in that order.
C2_ExactEnumeration ==
  (Returned /\ AllRecognized(percepts)) =>
    PairsOf(models) = SelectSeq(AllPairs, KeepPair)

C2_Witness ==
  /\ pc = "enumerated"
  /\ Len(percepts) >= 2
  /\ AllRecognized(percepts)
  /\ Len(models) > 1
  /\ Len(models) < 36

\* C3: a mapping holding an entry of unrecognized kind makes enumerate_models
\* fail, wherever the entry stands and whatever the other entries are; no
\* list of worlds is returned.
C3_UnknownKindRaises ==
  (pc \in {"enumerated", "summarized", "raised"} /\ SomeUnrecognized(percepts))
    => pc = "raised"

\* C4: with one more entry added to a mapping of recognized kinds, the
\* returned worlds are a subsequence of the worlds returned for the mapping
\* without it, so there are no more of them.
C4_Monotone ==
  (Returned /\ Len(percepts) > 0 /\ AllRecognized(percepts)) =>
    LET before == enumerate_models(Front(percepts)).models
    IN  /\ IsSubseq(models, before)
        /\ Len(models) <= Len(before)

C4_Witness ==
  /\ pc = "enumerated"
  /\ Len(percepts) > 1
  /\ AllRecognized(percepts)
  /\ Len(models) > 0
  /\ Len(models) < Len(enumerate_models(Front(percepts)).models)

\* C5 as stated: the second mapping of run() yields strictly fewer worlds
\* than the first, and a possible hazard cell the first did not have.
C5_NewPossibleHazard ==
  (pc = "summarized" /\ percepts = percepts2) =>
    LET modelsA == enumerate_models(percepts1).models
    IN  /\ Len(models) < Len(modelsA)
        /\ \E c \in summary.possible_D : c \notin summarize(modelsA).possible_D

\* C5 amended: the second mapping of run() yields strictly fewer worlds than
\* the first, and its possible hazard cells are at least one and are all
\* possible hazard cells of the first.
C5_NoNewPossibleHazard ==
  (pc = "summarized" /\ percepts = percepts2) =>
    LET modelsA == enumerate_models(percepts1).models
    IN  /\ Len(models) < Len(modelsA)
        /\ summary.possible_D # {}
        /\ summary.possible_D \subseteq summarize(modelsA).possible_D

C5_Witness ==
  /\ pc = "summarized"
  /\ percepts = percepts2
  /\ summary.num_models = 8
  /\ summary.possible_D = {<<3, 1>>, <<2, 2>>}

\* C6: the summary of a non-empty list of worlds counts the worlds and
\* holds, for each cell, safe / hazard / obstruction in all worlds as the
\* provable sets and hazard / obstruction in some world as the possible sets.
C6_SummaryExact ==
  (pc = "summarized" /\ Len(models) > 0) =>
    /\ summary.num_models = Len(models)
    /\ \A c \in Universe :
         /\ c \in summary.provably_safe <=>
              \A i \in 1..Len(models) : models[i].D # {c} /\ models[i].F # {c}
         /\ c \in summary.provably_damaged <=>
              \A i \in 1..Len(models) : models[i].D = {c}
         /\ c \in summary.provably_forklift <=>
              \A i \in 1..Len(models) : models[i].F = {c}
         /\ c \in summary.possible_D <=>
              \E i \in 1..Len(models) : models[i].D = {c}
         /\ c \in summary.possible_F <=>
              \E i \in 1..Len(models) : models[i].F = {c}
    /\ summary.provably_safe \cup summary.provably_damaged
         \cup summary.provably_forklift \cup summary.possible_D
         \cup summary.possible_F \subseteq Universe

C6_Witness ==
  /\ pc = "summarized"
  /\ Len(models) > 1
  /\ summary.provably_damaged # {}
  /\ summary.provably_forklift = {}
  /\ summary.provably_safe # {}
  /\ Cardinality(summary.possible_F) > 1

\* C7: the summary of the empty list of worlds, as returned for
\* contradictory observations, has count 0 and every cell set empty.
C7_EmptySummary ==
  (pc = "summarized" /\ Len(models) = 0) =>
    /\ summary.num_models = 0
    /\ summary.provably_safe = {}
    /\ summary.provably_damaged = {}
    /\ summary.provably_forklift = {}
    /\ summary.possible_D = {}
    /\ summary.possible_F = {}

C7_Witness ==
  /\ pc = "summarized"
  /\ AllRecognized(percepts)
  /\ models = << >>
  /\ summary.num_models = 0

\* C8: with no observations exactly 64 worlds are returned.
C8_NoObservations64 ==
  (Returned /\ percepts = << >>) => Len(models) = 64

C8_Witness ==
  /\ pc = "enumerated"
  /\ percepts = << >>
  /\ Len(models) = 64

\* C9: for every set of cells, derive_creaks returns the cells with an
\* orthogonal in-grid neighbour in the set, and derive_noises returns the same.
C9_DeriveExact ==
  pc = "derived" =>
    /\ creaks = {c \in Universe : \E n \in cellset : Adjacent(c, n)}
    /\ noises = creaks

C9_Witness ==
  /\ pc = "derived"
  /\ Cardinality(cellset) = 2
  /\ Cardinality(creaks) = 5
  /\ cellset \cap creaks # {}

\* C10: for the first mapping of run() the list of worlds is not empty, the
\* origin is provably safe and neither neighbour of the origin is a possible
\* hazard or obstruction cell.
C10_ScenarioA ==
  (pc = "summarized" /\ percepts = percepts1) =>
    /\ Len(models) > 0
    /\ <<1, 1>> \in summary.provably_safe
    /\ {<<1, 2>>, <<2, 1>>} \cap (summary.possible_D \cup summary.possible_F) = {}

C10_Witness ==
  /\ pc = "summarized"
  /\ percepts = percepts1
  /\ summary.num_models = 36

====
